---------------------------- MODULE Spec2Model ----------------------------
(***************************************************************************)
(* Model of the scheduler manager of app/scheduler/manager.py and of the   *)
(* Redis client holder of app/core/redis.py.                               *)
(*                                                                         *)
(* Several scheduler processes ("instances") share one Redis lock store.   *)
(* Every instance owns a SchedulerManager (an APScheduler AsyncIOScheduler *)
(* with job_defaults coalesce=True, max_instances=1) and, per job, at most *)
(* one running invocation of the job function.  A distributed job's        *)
(* function is the wrapper of _wrap_with_distributed_lock: acquire (SET NX *)
(* EX), handler, release (compare-and-delete Lua script) in a finally.     *)
(* One model step is one event-loop step: the code between two awaits.     *)
(***************************************************************************)
EXTENDS Integers, FiniteSets, Sequences, TLC

\* ------------------------------------------------------------------ bounds
NInstances == 2        \* scheduler processes sharing the lock store
LockTtl == 2           \* lock_ttl of the registered jobs, in clock ticks
NTicks == 10           \* ticks of the end-to-end scenario
E2ELockTtl == 5        \* lock_ttl of the end-to-end scenario, in ticks
MaxDue == 2            \* fire times a stalled fire loop lets pass, counted up to here
MaxPending == 3        \* registrations made before the scheduler is started
MaxSeconds == 2                \* largest seconds argument of an interval job
MaxFires == 3                  \* fire times computed for the job of the trigger scenario
MaxLag == 2                    \* seconds the fire loop may wake after a job is due

Instances == 1..NInstances
Jobs == {"a", "b"}
NoToken == 0
\* uuid4 tokens: one per in-flight invocation plus one per stored key, plus a fresh one
Tokens == 1..(NInstances * 2 + 3)

VARIABLES
    redis_client,      \* [Instances -> BOOLEAN]: redis.py's module global is not None
    scheduler,         \* [Instances -> {"None","initialized","running","stopped"}]:
                       \* _scheduler and its state; APScheduler's STATE_STOPPED is
                       \* "initialized" before the first start and "stopped" after a shutdown
    is_running,        \* [Instances -> BOOLEAN]: SchedulerManager._is_running
    release_lock_sha,  \* [Instances -> BOOLEAN]: _release_lock_sha is not None
    jobs,              \* [Instances -> [Jobs -> job definition or NoJob]]: the job store
    due,               \* [Instances -> [Jobs -> 0..MaxDue]]: fire times that have passed
                       \* (now - next_run_time, in periods, rounded up)
    slot,              \* [Instances -> [Jobs -> invocation record]]
    store,             \* [Keys -> token]: value at scheduler:lock:{job_id}, NoToken = absent
    ttl,               \* [Keys -> 0..]: remaining expiry of the key, in ticks
    storeUp,           \* the lock store answers commands
    scriptCached,      \* the release script is in the server's script cache
    alive,             \* [Instances -> BOOLEAN]: the process has not crashed
    pending,           \* [Instances -> Seq(job definition)]: jobs added while the
                       \* scheduler is not running (_pending_jobs), in call order
    listeners,         \* [Instances -> Nat]: add_listener calls on the scheduler
    instances,         \* [Instances -> [Jobs -> Nat]]: the executor's running count per job id
    counting,          \* observer: the run is the end-to-end scenario and is counted
    ticks,             \* observer: clock ticks counted
    execTotal,         \* observer: handler executions counted
    trig               \* one job's trigger and schedule state in seconds: the trigger's
                       \* fields, the job's next_run_time, the clock, fire times computed

vars == <<redis_client, scheduler, is_running, release_lock_sha, jobs, due, slot,
          store, ttl, storeUp, scriptCached, alive, pending, listeners, instances, counting, ticks, execTotal, trig>>

\* a job definition: id, trigger kind, whether the function is the lock wrapper and
\* with which lock_ttl, next_run_time is None (paused);
\* missed (observer): fire times that passed while it was paused, up to MaxDue
NoJob == [registered |-> FALSE, id |-> "none", trigger |-> "none", distributed |-> FALSE,
          lock_ttl |-> 0, paused |-> FALSE, missed |-> 0]

\* one invocation of a job function on one instance (max_instances=1: one per job):
\*   pc      where the coroutine is suspended ("done": finished, callback not yet run)
\*   token   the token _acquire_lock returned
\*   lease   ticks left until the key this invocation set expires
\*   acq     how _acquire_lock ended, hres how the handler ended, rel how _release_lock ended
\*   path    the script call that produced rel
\*   relCalls  how often the wrapper called _release_lock
\*   cancel  Task.cancel() was called and CancelledError is not yet delivered
\*   runs    run times the fire loop submitted with this invocation and not yet run
IdleSlot == [pc |-> "idle", token |-> NoToken, hres |-> "none", cancel |-> FALSE,
             lease |-> 0, acq |-> "none", rel |-> "none", path |-> "none",
             relCalls |-> 0, runs |-> 0]

InFlight == {"acquire", "handler", "rel_load", "rel_evalsha", "rel_eval"}

\* the observers count only in the end-to-end scenario
Count(v, happened) == IF counting /\ happened THEN v + 1 ELSE v


\* ------------------------------------------------------------- lock store
LOCK_KEY_PREFIX == "scheduler:lock:"

\* mutant: one key for every job
LockKey_Shared(job_id) == <<LOCK_KEY_PREFIX, "a">>

\* lock_key = f"{LOCK_KEY_PREFIX}{job_id}"
LockKey(job_id) == <<LOCK_KEY_PREFIX, job_id>>

\* the keys the instances can address
Keys == {LockKey(j) : j \in Jobs}

TokensInUse == {store[k] : k \in Keys} \cup {slot[i][k].token : i \in Instances, k \in Jobs}

\* str(uuid.uuid4()): a token no key and no running invocation carries
FreshToken == CHOOSE t \in Tokens \ TokensInUse : \A u \in Tokens \ TokensInUse : t <= u

\* mutant: SET without nx=True always succeeds
SetNxOk_NoNx(key) == TRUE

\* redis.set(lock_key, lock_token, nx=True, ex=ttl): truthy iff the key was absent
SetNxOk(key) == store[key] = NoToken
\* mutant: SET without nx=True writes the token over the one stored
SetNxStore_Overwrite(key, token) == [store EXCEPT ![key] = token]

SetNxStore(key, token) == IF SetNxOk(key) THEN [store EXCEPT ![key] = token] ELSE store
\* mutant: SET without ex=ttl, the key never expires
SetNxTtl_NoExpiry(key, t) == ttl

SetNxTtl(key, t) == IF SetNxOk(key) THEN [ttl EXCEPT ![key] = t] ELSE ttl

\* mutant: a script that answers 1 whatever the key holds
ReleaseScriptResult_Always(key, token) == 1

\* RELEASE_LOCK_SCRIPT: if get(KEYS[1]) == ARGV[1] then return del(KEYS[1]) else return 0
ReleaseScriptResult(key, token) == IF store[key] = token THEN 1 ELSE 0
\* mutant: the script deletes the key without comparing the token
ReleaseScriptStore_NoCheck(key, token) == [store EXCEPT ![key] = NoToken]

ReleaseScriptStore(key, token) ==
    IF store[key] = token THEN [store EXCEPT ![key] = NoToken] ELSE store
ReleaseScriptTtl(key, token) ==
    IF store[key] = token THEN [ttl EXCEPT ![key] = 0] ELSE ttl

\* ------------------------------------------------------------ redis client
init_redis(i) ==
    /\ alive[i]
    /\ storeUp                     \* from_url + ping succeed only on a reachable store
    /\ redis_client' = [redis_client EXCEPT ![i] = TRUE]
    /\ UNCHANGED <<scheduler, is_running, release_lock_sha, jobs, due, slot,
                   store, ttl, storeUp, scriptCached, alive, pending, listeners, instances, counting, ticks, execTotal, trig>>

close_redis(i) ==
    /\ alive[i]
    /\ redis_client' = [redis_client EXCEPT ![i] = FALSE]
    /\ UNCHANGED <<scheduler, is_running, release_lock_sha, jobs, due, slot,
                   store, ttl, storeUp, scriptCached, alive, pending, listeners, instances, counting, ticks, execTotal, trig>>

\* --------------------------------------------------------------- lifecycle
\* job_defaults of the AsyncIOScheduler created by init
MAX_INSTANCES == 1
\* mutant: the scheduler is created with coalesce=False
COALESCE_Off == FALSE

COALESCE == TRUE

\* what add_interval_job hands to scheduler.add_job: an IntervalTrigger, the id, and
\* the function, wrapped with the lock and its lock_ttl only for a distributed job
IntervalJob(job_id, distributed, lock_ttl) ==
    [registered |-> TRUE, id |-> job_id, trigger |-> "interval",
     distributed |-> distributed, lock_ttl |-> IF distributed THEN lock_ttl ELSE 0,
     paused |-> FALSE, missed |-> 0]

\* what add_cron_job hands to scheduler.add_job: the same with a CronTrigger
CronJob(job_id, distributed, lock_ttl) ==
    [IntervalJob(job_id, distributed, lock_ttl) EXCEPT !.trigger = "cron"]

\* scheduler.add_job(..., id=job_id, replace_existing=True) on a running scheduler:
\* the job store holds the new definition under the id
RealAdd(defs, d) == [defs EXCEPT ![d.id] = d]

\* add_interval_job(func, job_id, distributed=..., lock_ttl=...) with
\* replace_existing=True, on a running scheduler
add_interval_job(defs, job_id, distributed, lock_ttl) ==
    RealAdd(defs, IntervalJob(job_id, distributed, lock_ttl))

NoJobs == [j \in Jobs |-> NoJob]

\* scheduler.start() schedules the pending jobs in the order they were added
RECURSIVE RealAddAll(_, _)
RealAddAll(defs, ds) ==
    IF ds = <<>> THEN defs ELSE RealAddAll(RealAdd(defs, Head(ds)), Tail(ds))

\* the job source of _register_jobs: payment_jobs, then notification_jobs, register
\* one distributed job and one job without the distributed lock
SourceSeq == <<IntervalJob("a", TRUE, LockTtl), IntervalJob("b", FALSE, 0)>>

SourceJobs == RealAddAll(NoJobs, SourceSeq)

\* mutant: init without the "already initialized" return creates a new scheduler
init_Again(i) ==
    /\ alive[i]
    /\ scheduler' = [scheduler EXCEPT ![i] = "initialized"]
    /\ listeners' = [listeners EXCEPT ![i] = 2]
    /\ jobs' = [jobs EXCEPT ![i] = NoJobs]
    /\ pending' = [pending EXCEPT ![i] = <<>>]
    /\ UNCHANGED <<redis_client, is_running, release_lock_sha, due, slot,
                   store, ttl, storeUp, scriptCached, alive, instances,
                   counting, ticks, execTotal, trig>>

\* SchedulerManager.init: creates the scheduler and adds the two listeners once;
\* a second call returns after the warning
init(i) ==
    /\ alive[i]
    /\ IF scheduler[i] = "None"
       THEN /\ scheduler' = [scheduler EXCEPT ![i] = "initialized"]
            /\ listeners' = [listeners EXCEPT ![i] = 2]
       ELSE UNCHANGED <<scheduler, listeners>>
    /\ UNCHANGED <<redis_client, is_running, release_lock_sha, jobs, due, slot,
                   store, ttl, storeUp, scriptCached, alive, pending, instances,
                   counting, ticks, execTotal, trig>>

\* the registrations of _register_jobs that are made when the bad-th one raises
\* (bad = 0: none raises)
Registered(bad) == IF bad = 0 THEN SourceSeq ELSE SubSeq(SourceSeq, 1, bad - 1)

\* mutant: start without the "already running" return registers the jobs again
start_Again(i, bad) ==
    /\ alive[i] /\ bad = 0
    /\ listeners' = [listeners EXCEPT ![i] = IF scheduler[i] = "None" THEN 2 ELSE @]
    /\ jobs' = [jobs EXCEPT ![i] = RealAddAll(jobs[i], pending[i] \o Registered(bad))]
    /\ pending' = [pending EXCEPT ![i] = <<>>]
    /\ scheduler' = [scheduler EXCEPT ![i] = "running"]
    /\ is_running' = [is_running EXCEPT ![i] = TRUE]
    /\ due' = [due EXCEPT ![i] = [j \in Jobs |-> 0]]
    /\ UNCHANGED <<redis_client, release_lock_sha, slot, store, ttl, storeUp,
                   scriptCached, alive, instances, counting, ticks, execTotal, trig>>

\* SchedulerManager.start: init if needed, return if running, _register_jobs (the
\* jobs are added to a scheduler that is not running yet: pending), scheduler.start()
\* and _is_running = True.  An exception of a registration leaves start() there.
start(i, bad) ==
    /\ alive[i]
    /\ IF is_running[i]
       THEN /\ bad = 0
            /\ UNCHANGED <<scheduler, is_running, jobs, due, pending, listeners>>
       ELSE /\ listeners' = [listeners EXCEPT ![i] = IF scheduler[i] = "None" THEN 2 ELSE @]
            /\ IF bad = 0
               THEN /\ jobs' = [jobs EXCEPT ![i] =
                                  RealAddAll(jobs[i], pending[i] \o Registered(bad))]
                    /\ pending' = [pending EXCEPT ![i] = <<>>]
                    /\ scheduler' = [scheduler EXCEPT ![i] = "running"]
                    /\ is_running' = [is_running EXCEPT ![i] = TRUE]
               ELSE /\ Len(pending[i]) + bad - 1 <= MaxPending
                    /\ pending' = [pending EXCEPT ![i] = @ \o Registered(bad)]
                    /\ scheduler' = [scheduler EXCEPT ![i] =
                                       IF @ = "None" THEN "initialized" ELSE @]
                    /\ UNCHANGED <<jobs, is_running>>
            /\ due' = [due EXCEPT ![i] = [j \in Jobs |-> 0]]
    /\ UNCHANGED <<redis_client, release_lock_sha, slot, store, ttl, storeUp,
                   scriptCached, alive, instances, counting, ticks, execTotal, trig>>

\* scheduler.shutdown(wait=True) of an AsyncIOScheduler, called from the event loop:
\* it cannot wait for coroutines of its own loop; the executor cancels the
\* pending job tasks and the job store drops its jobs
Shutdown(i) ==
    /\ scheduler' = [scheduler EXCEPT ![i] = "stopped"]
    /\ jobs' = [jobs EXCEPT ![i] = NoJobs]
    /\ due' = [due EXCEPT ![i] = [j \in Jobs |-> 0]]
    /\ slot' = [slot EXCEPT ![i] =
                  [j \in Jobs |-> IF slot[i][j].pc \in InFlight
                                  THEN [slot[i][j] EXCEPT !.cancel = TRUE]
                                  ELSE slot[i][j]]]

\* mutant: stop shuts the scheduler down and keeps the flag
stop_KeepFlag(i) ==
    /\ alive[i]
    /\ IF ~is_running[i]
       THEN UNCHANGED <<scheduler, is_running, jobs, due, slot>>
       ELSE /\ Shutdown(i)
            /\ UNCHANGED is_running
    /\ UNCHANGED <<redis_client, release_lock_sha,
                   store, ttl, storeUp, scriptCached, alive, pending, listeners,
                   instances, counting, ticks, execTotal, trig>>

\* SchedulerManager.stop
stop(i) ==
    /\ alive[i]
    /\ IF ~is_running[i]
       THEN UNCHANGED <<scheduler, is_running, jobs, due, slot>>
       ELSE /\ Shutdown(i)
            /\ is_running' = [is_running EXCEPT ![i] = FALSE]
    /\ UNCHANGED <<redis_client, release_lock_sha,
                   store, ttl, storeUp, scriptCached, alive, pending, listeners,
                   instances, counting, ticks, execTotal, trig>>

\* ------------------------------------------------------------- invocation
SetSlot(i, j, s) == slot' = [slot EXCEPT ![i][j] = s]

\* mutant: the release sits after the handler call instead of in a finally
ReleaseBegin_NoFinally(i, s) ==
    IF s.acq # "ok" \/ s.hres # "ok" THEN [s EXCEPT !.pc = "done"]
    ELSE IF ~redis_client[i]
         THEN [s EXCEPT !.pc = "done", !.rel = "raised", !.relCalls = @ + 1]
    ELSE IF ~release_lock_sha[i] THEN [s EXCEPT !.pc = "rel_load", !.relCalls = @ + 1]
    ELSE [s EXCEPT !.pc = "rel_evalsha", !.relCalls = @ + 1]

\* the finally of the wrapper: _release_lock up to its first await
\* (get_redis, then script_load if no sha is cached, else evalsha)
ReleaseBegin(i, s) ==
    IF s.acq # "ok" THEN [s EXCEPT !.pc = "done"]
    ELSE IF ~redis_client[i]
         THEN [s EXCEPT !.pc = "done", !.rel = "raised", !.relCalls = @ + 1]
    ELSE IF ~release_lock_sha[i] THEN [s EXCEPT !.pc = "rel_load", !.relCalls = @ + 1]
    ELSE [s EXCEPT !.pc = "rel_evalsha", !.relCalls = @ + 1]

\* mutant: every job function is wrapped with the lock, whatever distributed says
InvocationBegin_AlwaysLock(i, j) ==
    IF ~redis_client[i] THEN [IdleSlot EXCEPT !.pc = "done", !.acq = "raised"]
    ELSE [IdleSlot EXCEPT !.pc = "acquire", !.lease = jobs[i][j].lock_ttl]

\* the wrapper up to its first await: _acquire_lock calls get_redis, then redis.set;
\* a job registered with distributed=False is the bare handler
InvocationBegin(i, j) ==
    IF ~jobs[i][j].distributed THEN [IdleSlot EXCEPT !.pc = "handler"]
    ELSE IF ~redis_client[i] THEN [IdleSlot EXCEPT !.pc = "done", !.acq = "raised"]
    ELSE [IdleSlot EXCEPT !.pc = "acquire", !.lease = jobs[i][j].lock_ttl]

\* mutant: the executor never refuses a submission
AtCapacity_Never(i, j) == FALSE

\* the executor refuses a submission while the job has max_instances running
AtCapacity(i, j) == instances[i][j] >= MAX_INSTANCES

\* the run times the fire loop submits for a job with n passed fire times:
\* with coalesce only the latest
RunTimes(n) == IF COALESCE THEN 1 ELSE n

\* mutant: a submission the executor refuses is queued behind the running one
Fire_Queued(i, j) ==
    /\ alive[i]
    /\ scheduler[i] = "running"
    /\ jobs[i][j].registered /\ ~jobs[i][j].paused
    /\ due[i][j] > 0
    /\ due' = [due EXCEPT ![i][j] = 0]
    /\ IF ~AtCapacity(i, j)
       THEN /\ SetSlot(i, j, [InvocationBegin(i, j) EXCEPT !.runs = RunTimes(due[i][j])])
            /\ instances' = [instances EXCEPT ![i][j] = @ + 1]
       ELSE /\ SetSlot(i, j, [slot[i][j] EXCEPT !.runs = @ + 1])
            /\ UNCHANGED instances
    /\ UNCHANGED <<redis_client, scheduler, is_running, release_lock_sha, jobs,
                   store, ttl, storeUp, scriptCached, alive, pending, listeners,
                   counting, ticks, execTotal, trig>>

\* the scheduler's fire loop finds job j due, submits its run times and moves its
\* next_run_time past now; a submission the executor refuses (max instances
\* reached) is dropped with EVENT_JOB_MAX_INSTANCES, not queued
Fire(i, j) ==
    /\ alive[i]
    /\ scheduler[i] = "running"
    /\ jobs[i][j].registered /\ ~jobs[i][j].paused
    /\ due[i][j] > 0
    /\ due' = [due EXCEPT ![i][j] = 0]
    /\ IF ~AtCapacity(i, j)
       THEN /\ SetSlot(i, j, [InvocationBegin(i, j) EXCEPT !.runs = RunTimes(due[i][j])])
            /\ instances' = [instances EXCEPT ![i][j] = @ + 1]
       ELSE UNCHANGED <<slot, instances>>
    /\ execTotal' = Count(execTotal, ~AtCapacity(i, j) /\ ~jobs[i][j].distributed)
    /\ UNCHANGED <<redis_client, scheduler, is_running, release_lock_sha, jobs,
                   store, ttl, storeUp, scriptCached, alive, pending, listeners,
                   counting, ticks, trig>>

\* _acquire_lock resumes from await redis.set(lock_key, lock_token, nx=True, ex=ttl)
AcquireStep(i, j) ==
    LET s == slot[i][j] IN
    /\ alive[i]
    /\ s.pc = "acquire" /\ ~s.cancel
    /\ IF ~storeUp
       THEN /\ SetSlot(i, j, [s EXCEPT !.pc = "done", !.acq = "raised", !.lease = 0])
            /\ UNCHANGED <<store, ttl>>
       ELSE /\ store' = SetNxStore(LockKey(j), FreshToken)
            /\ ttl' = SetNxTtl(LockKey(j), s.lease)
            /\ IF SetNxOk(LockKey(j))
               THEN SetSlot(i, j, [s EXCEPT !.pc = "handler", !.acq = "ok",
                                            !.token = FreshToken])
               ELSE SetSlot(i, j, [s EXCEPT !.pc = "done", !.acq = "held", !.lease = 0])
    /\ execTotal' = Count(execTotal, storeUp /\ SetNxOk(LockKey(j)))
    /\ UNCHANGED <<redis_client, scheduler, is_running, release_lock_sha, jobs, due,
                   storeUp, scriptCached, alive, pending, listeners, instances, counting, ticks, trig>>

\* await func(*args, **kwargs) ends: the handler returned or raised; the finally starts
HandlerEnd(i, j, r) ==
    LET s == slot[i][j] IN
    /\ alive[i]
    /\ s.pc = "handler" /\ ~s.cancel
    /\ SetSlot(i, j, ReleaseBegin(i, [s EXCEPT !.hres = r]))
    /\ UNCHANGED <<redis_client, scheduler, is_running, release_lock_sha, jobs, due,
                   store, ttl, storeUp, scriptCached, alive, pending, listeners, instances, counting, ticks, execTotal, trig>>

\* _release_lock resumes from await redis.script_load(RELEASE_LOCK_SCRIPT)
ReleaseLoad(i, j) ==
    LET s == slot[i][j] IN
    /\ alive[i]
    /\ s.pc = "rel_load" /\ ~s.cancel
    /\ IF ~storeUp
       THEN /\ SetSlot(i, j, [s EXCEPT !.pc = "done", !.rel = "raised"])
            /\ UNCHANGED <<release_lock_sha, scriptCached>>
       ELSE /\ SetSlot(i, j, [s EXCEPT !.pc = "rel_evalsha"])
            /\ release_lock_sha' = [release_lock_sha EXCEPT ![i] = TRUE]
            /\ scriptCached' = TRUE
    /\ UNCHANGED <<redis_client, scheduler, is_running, jobs, due,
                   store, ttl, storeUp, alive, pending, listeners, instances, counting, ticks, execTotal, trig>>

RelResult(key, token) == IF ReleaseScriptResult(key, token) = 1 THEN "true" ELSE "false"

\* _release_lock resumes from await redis.evalsha(sha, 1, lock_key, token);
\* an exception (store down, or NOSCRIPT after the script cache was flushed)
\* is caught and redis.eval is issued
ReleaseEvalsha(i, j) ==
    LET s == slot[i][j] IN
    /\ alive[i]
    /\ s.pc = "rel_evalsha" /\ ~s.cancel
    /\ IF storeUp /\ scriptCached
       THEN /\ store' = ReleaseScriptStore(LockKey(j), s.token)
            /\ ttl' = ReleaseScriptTtl(LockKey(j), s.token)
            /\ SetSlot(i, j, [s EXCEPT !.pc = "done", !.path = "evalsha",
                                         !.rel = RelResult(LockKey(j), s.token)])
       ELSE /\ SetSlot(i, j, [s EXCEPT !.pc = "rel_eval"])
            /\ UNCHANGED <<store, ttl>>
    /\ UNCHANGED <<redis_client, scheduler, is_running, release_lock_sha, jobs, due,
                   storeUp, scriptCached, alive, pending, listeners, instances, counting, ticks, execTotal, trig>>

\* _release_lock resumes from await redis.eval(RELEASE_LOCK_SCRIPT, 1, lock_key, token)
ReleaseEval(i, j) ==
    LET s == slot[i][j] IN
    /\ alive[i]
    /\ s.pc = "rel_eval" /\ ~s.cancel
    /\ IF storeUp
       THEN /\ store' = ReleaseScriptStore(LockKey(j), s.token)
            /\ ttl' = ReleaseScriptTtl(LockKey(j), s.token)
            /\ scriptCached' = TRUE
            /\ SetSlot(i, j, [s EXCEPT !.pc = "done", !.path = "eval",
                                         !.rel = RelResult(LockKey(j), s.token)])
       ELSE /\ SetSlot(i, j, [s EXCEPT !.pc = "done", !.path = "eval", !.rel = "raised"])
            /\ UNCHANGED <<store, ttl, scriptCached>>
    /\ UNCHANGED <<redis_client, scheduler, is_running, release_lock_sha, jobs, due,
                   storeUp, alive, pending, listeners, instances, counting, ticks, execTotal, trig>>

\* CancelledError is thrown into the job task at the await it is suspended in.
\* The command the await was waiting for may or may not have run on the server.
CancelDeliver(i, j) ==
    LET s == [slot[i][j] EXCEPT !.cancel = FALSE] IN
    /\ alive[i]
    /\ slot[i][j].cancel /\ s.pc \in InFlight
    /\ \E ran \in BOOLEAN :
         /\ ran => storeUp /\ s.pc \in {"acquire", "rel_load", "rel_evalsha", "rel_eval"}
         /\ ran /\ s.pc = "rel_evalsha" => scriptCached
         /\ CASE s.pc = "acquire" ->
                   /\ store' = IF ran THEN SetNxStore(LockKey(j), FreshToken) ELSE store
                   /\ ttl' = IF ran THEN SetNxTtl(LockKey(j), s.lease) ELSE ttl
                   /\ SetSlot(i, j, [s EXCEPT !.pc = "done", !.acq = "cancelled",
                                                !.lease = 0])
                   /\ UNCHANGED scriptCached
              [] s.pc = "handler" ->
                   /\ SetSlot(i, j, ReleaseBegin(i, [s EXCEPT !.hres = "cancel"]))
                   /\ UNCHANGED <<store, ttl, scriptCached>>
              [] s.pc = "rel_load" ->
                   /\ scriptCached' = (scriptCached \/ ran)
                   /\ SetSlot(i, j, [s EXCEPT !.pc = "done", !.rel = "cancelled"])
                   /\ UNCHANGED <<store, ttl>>
              [] s.pc \in {"rel_evalsha", "rel_eval"} ->
                   /\ store' = IF ran THEN ReleaseScriptStore(LockKey(j), s.token) ELSE store
                   /\ ttl' = IF ran THEN ReleaseScriptTtl(LockKey(j), s.token) ELSE ttl
                   /\ scriptCached' = (scriptCached \/ (ran /\ s.pc = "rel_eval"))
                   /\ SetSlot(i, j, [s EXCEPT !.pc = "done", !.rel = "cancelled"])
    /\ UNCHANGED <<redis_client, scheduler, is_running, release_lock_sha, jobs, due,
                   storeUp, alive, pending, listeners, instances, counting, ticks, execTotal, trig>>

\* what run_coroutine_job reports for a finished invocation: EVENT_JOB_ERROR if the
\* job function raised, else EVENT_JOB_EXECUTED (also for the wrapper's "return None")
RaisedBy(s) ==
    IF s.acq = "raised" THEN "acquire"
    ELSE IF s.acq = "cancelled" \/ s.rel = "cancelled" THEN "cancelled"
    ELSE IF s.rel = "raised" THEN "release"
    ELSE IF s.hres = "raise" THEN "handler"
    ELSE IF s.hres = "cancel" THEN "cancelled"
    ELSE "none"

\* mutant: an exception of the job function is swallowed and reported as executed
JobEvent_Swallow(s) == "executed"

JobEvent(s) == IF RaisedBy(s) = "none" THEN "executed" ELSE "error"

\* run_coroutine_job goes on to the next submitted run time, if any; after the last
\* one the task's done callback runs: the events go to _on_job_executed /
\* _on_job_error and the job's instance count drops
Dispatch(i, j) ==
    /\ alive[i]
    /\ slot[i][j].pc = "done"
    /\ IF slot[i][j].runs > 1
       THEN /\ SetSlot(i, j, [InvocationBegin(i, j) EXCEPT
                                 !.runs = slot[i][j].runs - 1])
            /\ UNCHANGED instances
       ELSE /\ SetSlot(i, j, IdleSlot)
            /\ instances' = [instances EXCEPT ![i][j] = IF @ > 0 THEN @ - 1 ELSE 0]
    /\ UNCHANGED <<redis_client, scheduler, is_running, release_lock_sha, jobs, due,
                   store, ttl, storeUp, scriptCached, alive, pending, listeners,
                   counting, ticks, execTotal, trig>>


\* the fire loop was stalled for more than misfire_grace_time past the latest fire
\* time of job j: its run is dropped with EVENT_JOB_MISSED
Misfire(i, j) ==
    /\ alive[i]
    /\ scheduler[i] = "running"
    /\ jobs[i][j].registered /\ ~jobs[i][j].paused
    /\ due[i][j] > 0 /\ ~AtCapacity(i, j)
    /\ due' = [due EXCEPT ![i][j] = 0]
    /\ UNCHANGED <<redis_client, scheduler, is_running, release_lock_sha, jobs, slot,
                   store, ttl, storeUp, scriptCached, alive, pending, listeners,
                   instances, counting, ticks, execTotal, trig>>

\* ---------------------------------------------------------------- job API
\* the position of the first pending job with the id, 0 if there is none
FirstPending(ds, job_id) ==
    IF \E k \in 1..Len(ds) : ds[k].id = job_id
    THEN CHOOSE k \in 1..Len(ds) :
           ds[k].id = job_id /\ \A m \in 1..(k - 1) : ds[m].id # job_id
    ELSE 0

RemoveAt(ds, k) == SubSeq(ds, 1, k - 1) \o SubSeq(ds, k + 1, Len(ds))

\* the job the scheduler looks up under the id: a pending one while it is not
\* running, else the job store's; NoJob if there is none (JobLookupError)
LookupJob(i, job_id) ==
    IF scheduler[i] = "None" THEN NoJob
    ELSE IF scheduler[i] = "running" THEN jobs[i][job_id]
    ELSE IF FirstPending(pending[i], job_id) = 0 THEN NoJob
    ELSE pending[i][FirstPending(pending[i], job_id)]

\* the scheduler property: RuntimeError("Scheduler not initialized")
\* while _scheduler is None
SchedulerRaises(i) == scheduler[i] = "None"

\* mutant: adding a job to a manager without scheduler creates the scheduler
AddJob_AutoInit(i, d) ==
    /\ alive[i]
    /\ IF scheduler[i] = "running"
       THEN /\ jobs' = [jobs EXCEPT ![i] = RealAdd(@, d)]
            /\ due' = [due EXCEPT ![i][d.id] = 0]
            /\ UNCHANGED <<pending, scheduler>>
       ELSE /\ Len(pending[i]) < MaxPending
            /\ pending' = [pending EXCEPT ![i] = Append(@, d)]
            /\ scheduler' = [scheduler EXCEPT ![i] = IF @ = "None" THEN "initialized" ELSE @]
            /\ UNCHANGED <<jobs, due>>
    /\ UNCHANGED <<redis_client, is_running, release_lock_sha, slot,
                   store, ttl, storeUp, scriptCached, alive, listeners,
                   instances, counting, ticks, execTotal, trig>>

\* scheduler.add_job(job_func, trigger, id=job_id, replace_existing=True): a running
\* scheduler puts the job into its store and computes its next run time; one that is
\* not running appends it to its pending jobs
AddJob(i, d) ==
    /\ alive[i]
    /\ IF SchedulerRaises(i)
       THEN UNCHANGED <<jobs, due, pending>>
       ELSE IF scheduler[i] = "running"
       THEN /\ jobs' = [jobs EXCEPT ![i] = RealAdd(@, d)]
            /\ due' = [due EXCEPT ![i][d.id] = 0]
            /\ UNCHANGED pending
       ELSE /\ Len(pending[i]) < MaxPending
            /\ pending' = [pending EXCEPT ![i] = Append(@, d)]
            /\ UNCHANGED <<jobs, due>>
    /\ UNCHANGED <<redis_client, scheduler, is_running, release_lock_sha, slot,
                   store, ttl, storeUp, scriptCached, alive, listeners,
                   instances, counting, ticks, execTotal, trig>>

\* SchedulerManager.add_interval_job with the default replace_existing=True
AddIntervalJob(i, job_id, distributed) ==
    AddJob(i, IntervalJob(job_id, distributed, LockTtl))

\* SchedulerManager.add_cron_job with the default replace_existing=True; CronTrigger
\* raises ValueError for a field it cannot parse, before anything is added
AddCronJob(i, job_id, distributed, valid) ==
    IF valid THEN AddJob(i, CronJob(job_id, distributed, LockTtl))
    ELSE alive[i] /\ UNCHANGED vars

\* the value remove_job returns: True if scheduler.remove_job returned, False if it
\* raised (RuntimeError without a scheduler, JobLookupError for an unknown id)
RemoveResult(i, job_id) == LookupJob(i, job_id).registered

\* SchedulerManager.remove_job: the scheduler removes the job from its store, or,
\* while it is not running, the first pending job with the id
remove_job(i, job_id) ==
    /\ alive[i]
    /\ IF ~LookupJob(i, job_id).registered
       THEN UNCHANGED <<jobs, due, pending>>
       ELSE IF scheduler[i] = "running"
       THEN /\ jobs' = [jobs EXCEPT ![i][job_id] = NoJob]
            /\ due' = [due EXCEPT ![i][job_id] = 0]
            /\ UNCHANGED pending
       ELSE /\ pending' = [pending EXCEPT ![i] = RemoveAt(@, FirstPending(@, job_id))]
            /\ UNCHANGED <<jobs, due>>
    /\ UNCHANGED <<redis_client, scheduler, is_running, release_lock_sha, slot,
                   store, ttl, storeUp, scriptCached, alive, listeners,
                   instances, counting, ticks, execTotal, trig>>

\* scheduler.modify_job(job_id, next_run_time=...) behind pause_job and resume_job
SetPaused(i, job_id, p) ==
    /\ alive[i]
    /\ IF ~LookupJob(i, job_id).registered    \* JobLookupError, RuntimeError: caught
       THEN UNCHANGED <<jobs, due, pending>>
       ELSE IF scheduler[i] = "running"
       THEN /\ jobs' = [jobs EXCEPT ![i][job_id].paused = p, ![i][job_id].missed = 0]
            /\ due' = [due EXCEPT ![i][job_id] = 0]
            /\ UNCHANGED pending
       ELSE /\ pending' = [pending EXCEPT
                             ![i][FirstPending(pending[i], job_id)].paused = p]
            /\ UNCHANGED <<jobs, due>>
    /\ UNCHANGED <<redis_client, scheduler, is_running, release_lock_sha, slot,
                   store, ttl, storeUp, scriptCached, alive, listeners,
                   instances, counting, ticks, execTotal, trig>>

\* SchedulerManager.pause_job: the job's next_run_time becomes None
pause_job(i, job_id) == SetPaused(i, job_id, TRUE)

\* SchedulerManager.resume_job: the job's next_run_time becomes the trigger's next
\* fire time after now
resume_job(i, job_id) == SetPaused(i, job_id, FALSE)

\* what add_interval_job / add_cron_job end with: CronTrigger's ValueError comes
\* first, then the scheduler property's RuntimeError, else they return None
AddResult(i, valid) ==
    IF ~valid THEN "ValueError"
    ELSE IF SchedulerRaises(i) THEN "RuntimeError"
    ELSE "None"

\* pause_job / resume_job: True, or False when the scheduler call raised
PauseResult(i, job_id) == LookupJob(i, job_id).registered

\* get_job_info: has no try/except
get_job_info(i, job_id) ==
    IF SchedulerRaises(i) THEN "RuntimeError"
    ELSE IF ~LookupJob(i, job_id).registered THEN "None"
    ELSE "info"

\* list_jobs on a manager without scheduler
ListJobsResult(i) == IF SchedulerRaises(i) THEN "RuntimeError" ELSE "list"

\* the job ids in ascending order
JobOrder == <<"a", "b">>
IdRank(job_id) == CHOOSE n \in 1..Len(JobOrder) : JobOrder[n] = job_id

\* a job's next_run_time relative to now, in periods: the more fire times have
\* passed the earlier; a paused job's (None) sorts as infinity
NextRunKey(i, job_id) ==
    IF jobs[i][job_id].paused THEN MaxDue + 1 ELSE MaxDue - due[i][job_id]

\* MemoryJobStore keeps its jobs sorted by (next_run_time, id)
StoreBefore(i, x, y) ==
    \/ NextRunKey(i, x) < NextRunKey(i, y)
    \/ NextRunKey(i, x) = NextRunKey(i, y) /\ IdRank(x) < IdRank(y)

RECURSIVE StoreOrder(_, _)
StoreOrder(i, S) ==
    IF S = {} THEN <<>>
    ELSE LET m == CHOOSE x \in S : \A y \in S \ {x} : StoreBefore(i, x, y)
         IN <<m>> \o StoreOrder(i, S \ {m})

\* SchedulerManager.list_jobs, as the ids of the entries it returns: one per job
\* of scheduler.get_jobs(), in its order (the job store's while the scheduler is
\* running, else the pending jobs')
list_jobs(i) ==
    IF scheduler[i] = "running"
    THEN StoreOrder(i, {j \in Jobs : jobs[i][j].registered})
    ELSE [k \in 1..Len(pending[i]) |-> pending[i][k].id]

\* ------------------------------------------------------------- environment
\* no invocation is running and no fire is pending
Quiescent ==
    \A i \in Instances, j \in Jobs : slot[i][j].pc = "idle" /\ due[i][j] = 0

\* the job is in the job store of a running scheduler
Scheduled(i, k) == alive[i] /\ scheduler[i] = "running" /\ jobs[i][k].registered

\* one clock tick, one period of every trigger (JS: the jobs whose trigger fires in
\* the scenario; cap: passed fire times are counted up to cap): keys set with EX lose
\* one tick of expiry and vanish at 0 (the leases the invocations believe they hold
\* age with them); one more fire time of every scheduled, unpaused job has passed;
\* a paused job has no next_run_time and only misses the fire time
Tick(JS, cap) ==
    /\ counting => ticks < NTicks /\ Quiescent
    /\ ticks' = Count(ticks, TRUE)
    /\ ttl' = [k \in Keys |-> IF ttl[k] > 0 THEN ttl[k] - 1 ELSE 0]
    /\ store' = [k \in Keys |-> IF ttl[k] = 1 THEN NoToken ELSE store[k]]
    /\ slot' = [i \in Instances |-> [k \in Jobs |->
                  IF slot[i][k].pc \in {"handler", "rel_load", "rel_evalsha", "rel_eval"}
                     /\ slot[i][k].lease > 0
                  THEN [slot[i][k] EXCEPT !.lease = @ - 1]
                  ELSE slot[i][k]]]
    /\ due' = [i \in Instances |-> [k \in Jobs |->
                  IF k \in JS /\ Scheduled(i, k) /\ ~jobs[i][k].paused
                  THEN (IF due[i][k] < cap THEN due[i][k] + 1 ELSE cap)
                  ELSE 0]]
    /\ jobs' = [i \in Instances |-> [k \in Jobs |->
                  IF k \in JS /\ Scheduled(i, k) /\ jobs[i][k].paused
                  THEN [jobs[i][k] EXCEPT !.missed = IF @ < cap THEN @ + 1 ELSE cap]
                  ELSE jobs[i][k]]]
    /\ UNCHANGED <<redis_client, scheduler, is_running, release_lock_sha,
                   storeUp, scriptCached, alive, pending, listeners, instances,
                   counting, execTotal, trig>>

StoreDown ==
    /\ storeUp
    /\ storeUp' = FALSE
    /\ UNCHANGED <<redis_client, scheduler, is_running, release_lock_sha, jobs, due,
                   slot, store, ttl, scriptCached, alive, pending, listeners, instances, counting, ticks, execTotal, trig>>

StoreUp ==
    /\ ~storeUp
    /\ storeUp' = TRUE
    /\ UNCHANGED <<redis_client, scheduler, is_running, release_lock_sha, jobs, due,
                   slot, store, ttl, scriptCached, alive, pending, listeners, instances, counting, ticks, execTotal, trig>>

\* SCRIPT FLUSH or a server restart empties the script cache
ScriptFlush ==
    /\ scriptCached
    /\ scriptCached' = FALSE
    /\ UNCHANGED <<redis_client, scheduler, is_running, release_lock_sha, jobs, due,
                   slot, store, ttl, storeUp, alive, pending, listeners, instances, counting, ticks, execTotal, trig>>

\* the process of instance i dies: its manager, client and running invocations are
\* gone; whatever it wrote to the store stays
Crash(i) ==
    /\ alive[i]
    /\ \E k \in Instances : k # i /\ alive[k]
    /\ alive' = [alive EXCEPT ![i] = FALSE]
    /\ redis_client' = [redis_client EXCEPT ![i] = FALSE]
    /\ scheduler' = [scheduler EXCEPT ![i] = "None"]
    /\ is_running' = [is_running EXCEPT ![i] = FALSE]
    /\ release_lock_sha' = [release_lock_sha EXCEPT ![i] = FALSE]
    /\ jobs' = [jobs EXCEPT ![i] = NoJobs]
    /\ due' = [due EXCEPT ![i] = [j \in Jobs |-> 0]]
    /\ slot' = [slot EXCEPT ![i] = [j \in Jobs |-> IdleSlot]]
    /\ pending' = [pending EXCEPT ![i] = <<>>]
    /\ listeners' = [listeners EXCEPT ![i] = 0]
    /\ instances' = [instances EXCEPT ![i] = [j \in Jobs |-> 0]]
    /\ UNCHANGED <<store, ttl, storeUp, scriptCached, counting, ticks, execTotal, trig>>

\* ---------------------------------------------------------- trigger engine
\* times are whole seconds counted from the start of an hour (UTC); NoTime is None
NoTime == 0 - 1

NoTrigger == [kind |-> "none", interval |-> 0, start_date |-> NoTime, minute |-> NoTime,
              second |-> NoTime, next_run_time |-> NoTime, now |-> 0, fires |-> 0]

\* the interval as given: timedelta(hours, minutes, seconds) in seconds
IntervalLength_Raw(seconds, minutes, hours) == seconds + 60 * minutes + 3600 * hours

\* IntervalTrigger.__init__: a zero interval becomes one second
IntervalLength(seconds, minutes, hours) ==
    IF IntervalLength_Raw(seconds, minutes, hours) = 0
    THEN 1
    ELSE IntervalLength_Raw(seconds, minutes, hours)

\* IntervalTrigger(seconds, minutes, hours, start_date) built at time now:
\* an absent start_date is now + interval
IntervalTrigger(seconds, minutes, hours, start_date, now) ==
    [NoTrigger EXCEPT !.kind = "interval",
                      !.interval = IntervalLength(seconds, minutes, hours),
                      !.start_date = IF start_date = NoTime
                                     THEN now + IntervalLength(seconds, minutes, hours)
                                     ELSE start_date]

\* CronTrigger(minute, second) with hour and day_of_week absent: fields above the
\* most significant given field match every value, fields below it their minimum
CronTrigger(minute, second) ==
    [NoTrigger EXCEPT !.kind = "cron", !.minute = minute,
                      !.second = IF second = NoTime /\ minute # NoTime THEN 0 ELSE second]

\* ceil(a / b) for a >= 0, b > 0
CeilDiv(a, b) == (a + b - 1) \div b

\* IntervalTrigger.get_next_fire_time (no jitter, no end_date)
IntervalNext(t, previous_fire_time, now) ==
    IF previous_fire_time # NoTime
    THEN previous_fire_time + t.interval
    ELSE IF t.start_date > now
         THEN t.start_date
         ELSE t.start_date + t.interval * CeilDiv(now - t.start_date, t.interval)

\* the earliest second >= start_date matching the cron fields
CronMatchFrom(t, start_date) ==
    IF t.minute # NoTime
    THEN start_date + ((t.minute * 60 + t.second + 3600 - (start_date % 3600)) % 3600)
    ELSE IF t.second # NoTime
         THEN start_date + ((t.second + 60 - (start_date % 60)) % 60)
         ELSE start_date

\* a search that starts at the previous fire time itself
CronNext_Inclusive(t, previous_fire_time, now) ==
    IF previous_fire_time = NoTime
    THEN CronMatchFrom(t, now)
    ELSE CronMatchFrom(t, previous_fire_time)

\* CronTrigger.get_next_fire_time: the search starts just after the previous fire
\* time, or at now when that is earlier (the scheduler never asks then)
CronNext(t, previous_fire_time, now) ==
    IF previous_fire_time = NoTime
    THEN CronMatchFrom(t, now)
    ELSE IF now < previous_fire_time
         THEN CronMatchFrom(t, now)
         ELSE CronMatchFrom(t, previous_fire_time + 1)

get_next_fire_time(t, previous_fire_time, now) ==
    IF t.kind = "interval"
    THEN IntervalNext(t, previous_fire_time, now)
    ELSE CronNext(t, previous_fire_time, now)

\* add_job on a running scheduler at time now: the first next_run_time is
\* get_next_fire_time(None, now)
Schedule(t, now) ==
    [t EXCEPT !.now = now, !.next_run_time = get_next_fire_time(t, NoTime, now)]

\* the fire loop wakes lag seconds after the job's next_run_time
Wakeup(lag) ==
    /\ trig.kind # "none"
    /\ trig.fires < MaxFires
    /\ trig.now < trig.next_run_time + lag
    /\ trig' = [trig EXCEPT !.now = trig.next_run_time + lag]
    /\ UNCHANGED <<redis_client, scheduler, is_running, release_lock_sha, jobs, due, slot,
                   store, ttl, storeUp, scriptCached, alive, pending, listeners, instances,
                   counting, ticks, execTotal>>

\* one step of _process_jobs / Job._get_run_times for a due job: the fire time
\* passes and the next one is computed from it
Advance ==
    /\ trig.kind # "none"
    /\ trig.fires < MaxFires
    /\ trig.next_run_time <= trig.now
    /\ trig' = [trig EXCEPT !.next_run_time =
                                get_next_fire_time(trig, trig.next_run_time, trig.now),
                            !.fires = trig.fires + 1]
    /\ UNCHANGED <<redis_client, scheduler, is_running, release_lock_sha, jobs, due, slot,
                   store, ttl, storeUp, scriptCached, alive, pending, listeners, instances,
                   counting, ticks, execTotal>>

\* ----------------------------------------------------------- specification
\* SchedulerManager.__init__ and redis.py's module state, per process; an empty store
Init ==
    /\ redis_client = [i \in Instances |-> FALSE]
    /\ scheduler = [i \in Instances |-> "None"]
    /\ listeners = [i \in Instances |-> 0]
    /\ is_running = [i \in Instances |-> FALSE]
    /\ release_lock_sha = [i \in Instances |-> FALSE]
    /\ jobs = [i \in Instances |-> NoJobs]
    /\ due = [i \in Instances |-> [j \in Jobs |-> 0]]
    /\ slot = [i \in Instances |-> [j \in Jobs |-> IdleSlot]]
    /\ pending = [i \in Instances |-> <<>>]
    /\ instances = [i \in Instances |-> [j \in Jobs |-> 0]]
    /\ store = [k \in Keys |-> NoToken]
    /\ ttl = [k \in Keys |-> 0]
    /\ storeUp = TRUE
    /\ scriptCached = FALSE
    /\ alive = [i \in Instances |-> TRUE]
    /\ counting = FALSE
    /\ ticks = 0
    /\ execTotal = 0
    /\ trig = NoTrigger

\* all instances, racing for the lock of the distributed job on a reachable store
Next ==
    \/ \E i \in Instances : init_redis(i)
    \/ \E i \in Instances : init(i)
    \/ \E i \in Instances : start(i, 0)
    \/ \E i \in Instances : stop(i)
    \/ \E i \in Instances : Fire(i, "a")
    \/ \E i \in Instances : AcquireStep(i, "a")
    \/ \E i \in Instances, r \in {"ok", "raise"} : HandlerEnd(i, "a", r)
    \/ \E i \in Instances : ReleaseLoad(i, "a")
    \/ \E i \in Instances : ReleaseEvalsha(i, "a")
    \/ \E i \in Instances : ReleaseEval(i, "a")
    \/ \E i \in Instances : CancelDeliver(i, "a")
    \/ \E i \in Instances : Dispatch(i, "a")
    \/ Tick({"a"}, 1)
    \/ ScriptFlush
    \/ \E i \in Instances : Crash(i)

Spec == Init /\ [][Next]_vars

\* one instance, all its jobs, with store outages and the client closed at any time
NextJobs ==
    \/ init_redis(1)
    \/ close_redis(1)
    \/ init(1)
    \/ start(1, 0)
    \/ stop(1)
    \/ \E j \in Jobs : Fire(1, j)
    \/ \E j \in Jobs : AcquireStep(1, j)
    \/ \E j \in Jobs, r \in {"ok", "raise"} : HandlerEnd(1, j, r)
    \/ \E j \in Jobs : ReleaseLoad(1, j)
    \/ \E j \in Jobs : ReleaseEvalsha(1, j)
    \/ \E j \in Jobs : ReleaseEval(1, j)
    \/ \E j \in Jobs : CancelDeliver(1, j)
    \/ \E j \in Jobs : Dispatch(1, j)
    \/ Tick(Jobs, 1)
    \/ StoreDown
    \/ StoreUp
    \/ ScriptFlush

SpecJobs == Init /\ [][NextJobs]_vars

\* every instance has initialised its client and started its scheduler with the
\* job definitions defs; nothing has fired yet
InitRunning(defs) ==
    /\ redis_client = [i \in Instances |-> TRUE]
    /\ scheduler = [i \in Instances |-> "running"]
    /\ listeners = [i \in Instances |-> 2]
    /\ is_running = [i \in Instances |-> TRUE]
    /\ release_lock_sha = [i \in Instances |-> FALSE]
    /\ jobs = [i \in Instances |-> defs]
    /\ due = [i \in Instances |-> [j \in Jobs |-> 0]]
    /\ slot = [i \in Instances |-> [j \in Jobs |-> IdleSlot]]
    /\ pending = [i \in Instances |-> <<>>]
    /\ instances = [i \in Instances |-> [j \in Jobs |-> 0]]
    /\ store = [k \in Keys |-> NoToken]
    /\ ttl = [k \in Keys |-> 0]
    /\ storeUp = TRUE
    /\ scriptCached = FALSE
    /\ alive = [i \in Instances |-> TRUE]
    /\ ticks = 0
    /\ execTotal = 0

\* end-to-end scenario: one distributed interval job, period one tick, registered on
\* every instance; every invocation ends within its tick; NTicks ticks are counted
InitE2E ==
    /\ InitRunning(add_interval_job(NoJobs, "a", TRUE, E2ELockTtl))
    /\ counting = TRUE
    /\ trig = NoTrigger

NextE2E ==
    \/ \E i \in Instances : Fire(i, "a")
    \/ \E i \in Instances : AcquireStep(i, "a")
    \/ \E i \in Instances, r \in {"ok", "raise"} : HandlerEnd(i, "a", r)
    \/ \E i \in Instances : ReleaseLoad(i, "a")
    \/ \E i \in Instances : ReleaseEvalsha(i, "a")
    \/ \E i \in Instances : Dispatch(i, "a")
    \/ Tick({"a"}, 1)

SpecE2E == InitE2E /\ [][NextE2E]_vars

\* crash scenario: running instances, handlers that end, a clock that keeps
\* ticking, and instances that may crash while another one lives
InitLive ==
    /\ InitRunning(SourceJobs)
    /\ counting = FALSE
    /\ trig = NoTrigger

NextLive ==
    \/ \E i \in Instances : Fire(i, "a")
    \/ \E i \in Instances : AcquireStep(i, "a")
    \/ \E i \in Instances, r \in {"ok", "raise"} : HandlerEnd(i, "a", r)
    \/ \E i \in Instances : ReleaseLoad(i, "a")
    \/ \E i \in Instances : ReleaseEvalsha(i, "a")
    \/ \E i \in Instances : Dispatch(i, "a")
    \/ Tick({"a"}, 1)
    \/ \E i \in Instances : Crash(i)

\* the event loop of a live process runs every ready step; the clock advances
FairLive ==
    /\ WF_vars(Tick({"a"}, 1))
    /\ \A i \in Instances :
         /\ WF_vars(Fire(i, "a"))
         /\ WF_vars(AcquireStep(i, "a"))
         /\ WF_vars(\E r \in {"ok", "raise"} : HandlerEnd(i, "a", r))
         /\ WF_vars(ReleaseLoad(i, "a"))
         /\ WF_vars(ReleaseEvalsha(i, "a"))
         /\ WF_vars(Dispatch(i, "a"))

SpecLive == InitLive /\ [][NextLive]_vars /\ FairLive

\* the job API used on one instance at any time of its life, with registrations
\* that raise, a fire loop that may stall, and jobs that run
NextApi ==
    \/ init(1)
    \/ \E bad \in 0..Len(SourceSeq) : start(1, bad)
    \/ stop(1)
    \/ \E j \in Jobs, d \in BOOLEAN : AddIntervalJob(1, j, d)
    \/ \E j \in Jobs, d, valid \in BOOLEAN : AddCronJob(1, j, d, valid)
    \/ \E j \in Jobs : remove_job(1, j)
    \/ \E j \in Jobs : pause_job(1, j)
    \/ \E j \in Jobs : resume_job(1, j)
    \/ \E j \in Jobs : Fire(1, j)
    \/ \E j \in Jobs : Misfire(1, j)
    \/ \E j \in Jobs : HandlerEnd(1, j, "ok")
    \/ \E j \in Jobs : CancelDeliver(1, j)
    \/ \E j \in Jobs : Dispatch(1, j)
    \/ Tick(Jobs, MaxDue)

SpecApi == Init /\ [][NextApi]_vars

\* a running instance whose jobs run with the lock store while they are registered
\* again, paused and resumed, and while its fire loop may stall
NextRun ==
    \/ \E j \in Jobs, d \in BOOLEAN : AddIntervalJob(1, j, d)
    \/ \E j \in Jobs : pause_job(1, j)
    \/ \E j \in Jobs : resume_job(1, j)
    \/ \E j \in Jobs : Fire(1, j)
    \/ \E j \in Jobs : Misfire(1, j)
    \/ \E j \in Jobs : AcquireStep(1, j)
    \/ \E j \in Jobs, r \in {"ok", "raise"} : HandlerEnd(1, j, r)
    \/ \E j \in Jobs : ReleaseLoad(1, j)
    \/ \E j \in Jobs : ReleaseEvalsha(1, j)
    \/ \E j \in Jobs : Dispatch(1, j)
    \/ Tick(Jobs, MaxDue)

SpecRun == InitLive /\ [][NextRun]_vars

\* trigger scenario: a running scheduler on which one job has just been added with
\* an interval or a cron trigger; the clock jumps to the job's fire times
IntervalInputs(now) ==
    {IntervalTrigger(sec, mi, h, sd, now) :
        sec \in 0..MaxSeconds, mi \in 0..1, h \in 0..1, sd \in {NoTime, 0, 90}}

CronInputs ==
    {CronTrigger(mi, sec) : mi \in {NoTime, 0, 1, 59}, sec \in {NoTime, 0, 30, 59}}

InitTrigger ==
    /\ \E now \in {0, 61, 3599} : \E t \in IntervalInputs(now) \cup CronInputs :
          /\ trig = Schedule(t, now)
          /\ InitRunning(IF t.kind = "interval"
                         THEN add_interval_job(NoJobs, "a", FALSE, 0)
                         ELSE RealAdd(NoJobs, CronJob("a", FALSE, 0)))
    /\ counting = FALSE

NextTrigger ==
    \/ \E lag \in 0..MaxLag : Wakeup(lag)
    \/ Advance

SpecTrigger == InitTrigger /\ [][NextTrigger]_vars

\* mixed scenario: running instances that register the job "a" again and again, each
\* with or without the lock, so that one instance runs the bare handler while
\* another one holds the key of the same job id
NextMixed ==
    \/ \E i \in Instances, d \in BOOLEAN : AddIntervalJob(i, "a", d)
    \/ \E i \in Instances : Fire(i, "a")
    \/ \E i \in Instances : AcquireStep(i, "a")
    \/ \E i \in Instances, r \in {"ok", "raise"} : HandlerEnd(i, "a", r)
    \/ \E i \in Instances : ReleaseLoad(i, "a")
    \/ \E i \in Instances : ReleaseEvalsha(i, "a")
    \/ \E i \in Instances : Dispatch(i, "a")
    \/ Tick({"a"}, 1)

SpecMixed == InitLive /\ [][NextMixed]_vars

\* main.py's lifespan, per process, in its order: init_redis, init_scheduler,
\* scheduler_manager.start; then scheduler_manager.stop, close_redis
LifespanInitRedis(i) == scheduler[i] = "None" /\ ~redis_client[i] /\ init_redis(i)

LifespanInitScheduler(i) == redis_client[i] /\ scheduler[i] = "None" /\ init(i)

LifespanStart(i) == redis_client[i] /\ scheduler[i] = "initialized" /\ start(i, 0)

LifespanStop(i) == is_running[i] /\ stop(i)

\* close_redis is awaited once stop() has returned
LifespanCloseRedis(i) == scheduler[i] = "stopped" /\ redis_client[i] /\ close_redis(i)

\* lifespan scenario: every process runs the lifespan once; the distributed job
\* fires and its invocations take their steps whenever the event loop runs them
NextLifespan ==
    \/ \E i \in Instances : LifespanInitRedis(i)
    \/ \E i \in Instances : LifespanInitScheduler(i)
    \/ \E i \in Instances : LifespanStart(i)
    \/ \E i \in Instances : LifespanStop(i)
    \/ \E i \in Instances : LifespanCloseRedis(i)
    \/ \E i \in Instances : Fire(i, "a")
    \/ \E i \in Instances : AcquireStep(i, "a")
    \/ \E i \in Instances, r \in {"ok", "raise"} : HandlerEnd(i, "a", r)
    \/ \E i \in Instances : ReleaseLoad(i, "a")
    \/ \E i \in Instances : ReleaseEvalsha(i, "a")
    \/ \E i \in Instances : CancelDeliver(i, "a")
    \/ \E i \in Instances : Dispatch(i, "a")
    \/ Tick({"a"}, 1)

SpecLifespan == Init /\ [][NextLifespan]_vars

\* ============================================================== properties
\* invocations of job j that acquired the lock and whose handler has not ended
InHandler(j) == {i \in Instances : slot[i][j].pc = "handler" /\ slot[i][j].acq = "ok"}

\* C1 (as stated): at most one invocation of a job is between a successful acquire
\* and the end of its handler, for any handler duration relative to lock_ttl
C1_MutualExclusion ==
    \A j \in Jobs : Cardinality(InHandler(j)) <= 1

\* C1 (amended): among the invocations of a job that are between a successful acquire
\* and the end of their handler, at most one acquired less than lock_ttl ago; a
\* handler that outlives lock_ttl can overlap with one that acquired after the expiry
C1_ExclusionWithinLease ==
    \A j \in Jobs :
        Cardinality({i \in InHandler(j) : slot[i][j].lease > 0}) <= 1

\* C1 witness: one instance runs the handler inside its lease while the other
\* instance's racing acquire found the key present
C1_Witness ==
    \E i, k \in Instances :
        /\ i # k
        /\ slot[i]["a"].pc = "handler" /\ slot[i]["a"].lease > 0
        /\ slot[k]["a"].pc = "done" /\ slot[k]["a"].acq = "held"

\* the release script ran for (i, j) in this step and _release_lock returned
ScriptReturned(i, j) ==
    /\ slot[i][j].pc \in {"rel_evalsha", "rel_eval"}
    /\ ~slot[i][j].cancel
    /\ slot'[i][j].pc = "done"
    /\ slot'[i][j].rel \in {"true", "false"}

\* C2: a release whose token is not the value stored at the key (expired and
\* re-acquired by another invocation, or absent) returns false and leaves the key,
\* its value and its expiry unchanged, on the evalsha path and on the eval path
C2_StaleReleaseKeepsLock ==
    [][\A i \in Instances, j \in Jobs :
          (ScriptReturned(i, j) /\ store[LockKey(j)] # slot[i][j].token)
          => /\ slot'[i][j].rel = "false"
             /\ slot'[i][j].path = (IF slot[i][j].pc = "rel_eval" THEN "eval" ELSE "evalsha")
             /\ store' = store
             /\ ttl' = ttl]_vars

\* C2 witness: a release on the eval retry path returned false while the key holds
\* the token of another invocation, which is still running its handler
C2_Witness ==
    \E i, k \in Instances :
        /\ i # k
        /\ slot[i]["a"].pc = "done" /\ slot[i]["a"].rel = "false"
        /\ slot[i]["a"].path = "eval"
        /\ slot[k]["a"].pc = "handler"
        /\ store[LockKey("a")] = slot[k]["a"].token
        /\ store[LockKey("a")] # slot[i]["a"].token

\* C3 (as stated): after NTicks ticks of the end-to-end scenario the handler has run
\* exactly NTicks times in total across the instances
C3_ExactlyOncePerTick ==
    (ticks = NTicks /\ Quiescent) => execTotal = NTicks

\* the states of _release_lock
InRelease == {"rel_load", "rel_evalsha", "rel_eval"}

\* C4: an invocation whose acquire returned a token calls release exactly once, with
\* that token, after the handler ended (returned, raised or cancelled) and not
\* before; an invocation whose acquire returned no token never calls release
C4_ReleaseExactlyOnceAfterHandler ==
    \A i \in Instances, j \in Jobs :
        LET s == slot[i][j] IN
        /\ s.pc \in {"idle", "acquire", "handler"} => s.relCalls = 0 /\ s.rel = "none"
        /\ s.pc \in InRelease \cup {"done"} /\ s.acq = "ok"
             => /\ s.relCalls = 1
                /\ s.hres \in {"ok", "raise", "cancel"}
                /\ s.token # NoToken
                /\ \A k \in Instances \ {i} : slot[k][j].token # s.token
        /\ s.pc \in InRelease => s.acq = "ok"
        /\ s.acq # "ok" => s.relCalls = 0 /\ s.rel = "none" /\ s.path = "none"

\* C4 witness: a handler cancelled by stop() whose lock was released by the finally
C4_Witness ==
    \E i \in Instances :
        /\ slot[i]["a"].pc = "done" /\ slot[i]["a"].hres = "cancel"
        /\ slot[i]["a"].relCalls = 1 /\ slot[i]["a"].rel = "true"

\* C5 (as stated): an invocation whose acquire found the key present does not run
\* the handler and is reported as an outcome that is neither executed nor error
C5_SkipIsDistinctOutcome ==
    \A i \in Instances, j \in Jobs :
        slot[i][j].pc = "done" /\ slot[i][j].acq = "held"
        => /\ slot[i][j].hres = "none"
           /\ JobEvent(slot[i][j]) \notin {"executed", "error"}

\* C6 (as stated): the reported outcome is the handler's: the handler's error when
\* it raised, success when it returned, whatever release then does
C6_OutcomeIsTheHandlers ==
    \A i \in Instances, j \in Jobs :
        LET s == slot[i][j] IN
        s.pc = "done" /\ s.acq = "ok" /\ s.rel \in {"true", "false", "raised"}
        => /\ s.hres = "raise" => JobEvent(s) = "error" /\ RaisedBy(s) = "handler"
           /\ s.hres = "ok" => JobEvent(s) = "executed"

\* C7 (as stated): an acquire on an unreachable store or an uninitialised client is
\* a lock-held skip: the handler does not run and no error leaves the wrapper
C7_UnavailableStoreIsSkip ==
    \A i \in Instances, j \in Jobs :
        slot[i][j].pc = "done" /\ slot[i][j].acq = "raised"
        => /\ slot[i][j].hres = "none"
           /\ RaisedBy(slot[i][j]) = "none"

\* C8: when a handler raised, an error event for that job is reported, release was
\* called (and where its script ran the key no longer holds the invocation's token),
\* and the scheduler keeps running with every job still registered
C8_HandlerErrorContained ==
    \A i \in Instances, j \in Jobs :
        LET s == slot[i][j] IN
        s.pc = "done" /\ s.hres = "raise"
        => /\ JobEvent(s) = "error"
           /\ s.acq = "ok" => /\ s.relCalls = 1
                              /\ s.rel \in {"true", "false"}
                                   => store[LockKey(j)] # s.token
           /\ is_running[i] => /\ scheduler[i] = "running"
                               /\ \A k \in Jobs : jobs[i][k].registered
                                                  /\ ~jobs[i][k].paused

\* C8 witness: the distributed job's handler raised, its lock was released, and the
\* scheduler is running with the other job due
C8_Witness ==
    \E i \in Instances :
        /\ slot[i]["a"].pc = "done" /\ slot[i]["a"].hres = "raise"
        /\ slot[i]["a"].rel = "true" /\ store[LockKey("a")] = NoToken
        /\ is_running[i] /\ due[i]["b"] > 0

\* the key of job j holds a token no live invocation carries (its holder crashed)
Orphaned(j) ==
    /\ store[LockKey(j)] # NoToken
    /\ \A i \in Instances : slot[i][j].token # store[LockKey(j)]

\* C9: a lock left behind by a crashed holder expires, and a later invocation of the
\* job on a live instance acquires it and runs its handler
C9_CrashedHolderExpires ==
    \A j \in Jobs :
        Orphaned(j) ~> (\E i \in Instances : alive[i] /\ slot[i][j].pc = "handler")

\* C9 witness: an instance crashed and the key still holds its invocation's token
C9_Witness ==
    /\ \E i \in Instances : ~alive[i]
    /\ Orphaned("a")
    /\ ttl[LockKey("a")] > 0

\* C10 (as stated): once stop() has returned no invocation is still in flight, and
\* no invocation was cancelled
C10_StopDrains ==
    \A i \in Instances, j \in Jobs :
        /\ scheduler[i] = "stopped" => slot[i][j].pc \notin InFlight
        /\ ~slot[i][j].cancel
        /\ slot[i][j].hres # "cancel"

\* C11: once stop() has taken a running manager to Stopped, no later init() or
\* start() makes is_running true again
C11_StoppedIsTerminal ==
    [][\A i \in Instances : scheduler[i] = "stopped" => ~is_running'[i]]_vars

\* C12: init() on a manager that is already initialised (initialized, running or
\* stopped) changes nothing: scheduler, registered and pending jobs and listeners
\* stay as they are; the two listeners are installed once, with the scheduler
C12_InitIdempotent ==
    /\ [](\A i \in Instances : listeners[i] = IF scheduler[i] = "None" THEN 0 ELSE 2)
    /\ [][\A i \in Instances : init(i) /\ scheduler[i] # "None" => UNCHANGED vars]_vars

\* a stopped manager with listeners and pending registrations, on which init() can
\* be called
C12_Witness ==
    \E i \in Instances :
        scheduler[i] = "stopped" /\ listeners[i] = 2 /\ pending[i] # <<>> /\ ENABLED init(i)

\* C13: start() on a manager that is already running changes nothing: the job
\* source is not called, no definition is registered again or replaced, the
\* scheduler is not started a second time and is_running stays true
C13_StartOnRunningIsNoOp ==
    [][\A i \in Instances : start(i, 0) /\ is_running[i] => UNCHANGED vars]_vars

\* a running manager whose job store differs from what the job source registers
\* (a job was paused, removed or registered anew), on which start() can be called
C13_Witness ==
    \E i \in Instances :
        is_running[i] /\ jobs[i] # SourceJobs /\ ENABLED start(i, 0)

\* C14: a registration of the job source that raises prevents only that job: the
\* source's other jobs are registered by the same start() and start() still makes
\* the manager running
C14_BadJobOnly ==
    [][\A i \in Instances, bad \in 1..Len(SourceSeq) :
         start(i, bad) /\ ~is_running[i] =>
            /\ is_running'[i]
            /\ \A k \in 1..Len(SourceSeq) :
                 k # bad => jobs'[i][SourceSeq[k].id].registered]_vars

\* C15: on every instance the number of running invocations of a job never exceeds
\* max_instances, whether the job is distributed or not and also when the job is
\* registered again under its id while an invocation runs
C15_AtMostMaxInstances ==
    \A i \in Instances, j \in Jobs :
        /\ instances[i][j] <= MAX_INSTANCES
        /\ instances[i][j] = IF slot[i][j].pc = "idle" THEN 0 ELSE 1

\* an invocation that acquired the lock is in its handler, its job has meanwhile been
\* registered again without the lock, and a fire of the job is due
C15_Witness ==
    \E i \in Instances, j \in Jobs :
        /\ slot[i][j].pc = "handler" /\ slot[i][j].acq = "ok"
        /\ jobs[i][j].registered /\ ~jobs[i][j].distributed
        /\ due[i][j] > 0

C17_ExactlyOneCatchUp ==
    [][\A i \in Instances, j \in Jobs :
         /\ resume_job(i, j) /\ scheduler[i] = "running"
              /\ jobs[i][j].paused /\ jobs[i][j].missed >= 2 => due'[i][j] = 1
         /\ (Fire(i, j) \/ Misfire(i, j)) /\ due[i][j] >= 2
              => instances'[i][j] = instances[i][j] + 1]_vars

\* C17: when at least two fire times of a job have passed while it could not fire,
\* what follows is at most one execution, never one per passed fire time: every
\* submission of the fire loop carries one run, and resuming a paused job leaves no
\* fire due (the job next runs at its first fire time after the resume)
C17_AtMostOneCatchUp ==
    /\ [](\A i \in Instances, j \in Jobs : slot[i][j].runs <= 1)
    /\ [][\A i \in Instances, j \in Jobs :
            /\ resume_job(i, j) /\ scheduler[i] = "running" /\ jobs[i][j].paused
                 => due'[i][j] = 0 /\ slot'[i][j] = slot[i][j]
            /\ due[i][j] >= 2 /\ instances'[i][j] > instances[i][j]
                 => slot'[i][j].runs = 1 /\ due'[i][j] = 0]_vars

\* two fire times of one job have passed without the fire loop running, while
\* another job of the instance is paused and has missed two fire times
C17_Witness ==
    \E i \in Instances, j, k \in Jobs :
        /\ scheduler[i] = "running"
        /\ due[i][j] >= 2 /\ slot[i][j].pc = "idle"
        /\ jobs[i][k].paused /\ jobs[i][k].missed >= 2

\* the ids of the jobs list_jobs would show on instance i
Listed(i) == {list_jobs(i)[k] : k \in 1..Len(list_jobs(i))}

\* C18: after any sequence of add_interval_job, add_cron_job and remove_job calls
\* the registry holds at most one definition per job id, and a registration under
\* an id that exists leaves the new definition under that id and the definitions
\* under the other ids as they were
C18_OneDefinitionPerId ==
    /\ [](\A i \in Instances, j \in Jobs :
            Cardinality({k \in 1..Len(list_jobs(i)) : list_jobs(i)[k] = j}) <= 1)
    /\ [][\A i \in Instances, j \in Jobs, d \in BOOLEAN :
            AddIntervalJob(i, j, d) =>
               /\ LookupJob(i, j)' = IntervalJob(j, d, LockTtl)
               /\ \A k \in Jobs \ {j} : LookupJob(i, k)' = LookupJob(i, k)]_vars

\* C19: remove_job(job_id) returns true exactly when a definition was registered
\* under the id; after the call none is registered under it; when it returns false
\* the registry is unchanged
C19_RemoveJob ==
    [][\A i \in Instances, j \in Jobs :
         remove_job(i, j) =>
            /\ RemoveResult(i, j) <=> j \in Listed(i)
            /\ j \notin Listed(i)'
            /\ ~RemoveResult(i, j) => UNCHANGED <<jobs, pending>>]_vars

\* C20: list_jobs() returns one entry for every registered job and no others,
\* in ascending order of job id
C20_ListJobsSortedById ==
    \A i \in Instances :
        scheduler[i] # "None" =>
           /\ \A k \in 1..(Len(list_jobs(i)) - 1) :
                 IdRank(list_jobs(i)[k]) < IdRank(list_jobs(i)[k + 1])
           /\ Listed(i) = {j \in Jobs : LookupJob(i, j).registered}

C22_AcquireIsSetIfAbsent ==
    [][\A i \in Instances, j \in Jobs :
         (AcquireStep(i, j) /\ storeUp) =>
            IF store[LockKey(j)] = NoToken
            THEN /\ store'[LockKey(j)] \in Tokens \ TokensInUse
                 /\ ttl'[LockKey(j)] = jobs[i][j].lock_ttl
                 /\ slot'[i][j].acq = "ok"
                 /\ slot'[i][j].pc = "handler"
                 /\ slot'[i][j].token = store'[LockKey(j)]
            ELSE /\ store' = store
                 /\ ttl' = ttl
                 /\ slot'[i][j].acq = "held"
                 /\ slot'[i][j].pc = "done"
                 /\ slot'[i][j].token = NoToken]_vars

\* an acquire has returned None while another instance holds the key, part of its
\* expiry already used up
C22_Witness ==
    \E i, k \in Instances :
        /\ i # k
        /\ slot[i]["a"].acq = "held"
        /\ slot[k]["a"].pc = "handler" /\ slot[k]["a"].acq = "ok"
        /\ store[LockKey("a")] = slot[k]["a"].token
        /\ ttl[LockKey("a")] < jobs[k]["a"].lock_ttl
        /\ ttl[LockKey("a")] > 0

\* C23: an invocation of a job registered with distributed=false performs no acquire
\* and no release: it starts in the handler whatever the lock store holds, also
\* while another instance holds the key of the same job id, it ends without a call
\* of release, and none of its steps changes a key or an expiry of the lock store
C23_BareJobLeavesStoreAlone ==
    [][\A i \in Instances, j \in Jobs :
         /\ (Fire(i, j) /\ ~jobs[i][j].distributed /\ ~AtCapacity(i, j)) =>
               /\ slot'[i][j].pc = "handler"
               /\ slot'[i][j].acq = "none"
               /\ store' = store /\ ttl' = ttl
         /\ (slot[i][j].pc = "handler" /\ slot[i][j].acq = "none"
               /\ slot'[i][j] # slot[i][j]) =>
               /\ slot'[i][j].pc = "done"
               /\ slot'[i][j].acq = "none"
               /\ slot'[i][j].rel = "none"
               /\ slot'[i][j].relCalls = 0
               /\ store' = store /\ ttl' = ttl
         /\ (slot[i][j].pc = "done" /\ slot[i][j].acq = "none"
               /\ slot'[i][j] # slot[i][j]) =>
               (store' = store /\ ttl' = ttl)]_vars

\* the bare handler of "a" runs on one instance while another instance is in the
\* handler of "a" holding the key scheduler:lock:a
C23_Witness ==
    \E i, k \in Instances :
        /\ i # k
        /\ ~jobs[i]["a"].distributed
        /\ slot[i]["a"].pc = "handler" /\ slot[i]["a"].acq = "none"
        /\ slot[k]["a"].pc = "handler" /\ slot[k]["a"].acq = "ok"
        /\ store[LockKey("a")] = slot[k]["a"].token

\* C24: whatever init(), start() and stop() calls were made, a start() in which a
\* registration raises included, is_running is true only while the scheduler exists
\* and its fire loop runs (started and not shut down); a start() on a manager without
\* scheduler creates the scheduler; a start() that fails during registration leaves
\* is_running false and the fire loop not started
C24_RunningFlagMeansFireLoop ==
    /\ [](\A i \in Instances : is_running[i] => scheduler[i] = "running")
    /\ [][\A i \in Instances, bad \in 0..Len(SourceSeq) :
            start(i, bad) =>
               /\ scheduler'[i] # "None"
               /\ listeners'[i] = 2
               /\ bad = 0 => (is_running'[i] /\ scheduler'[i] = "running")
               /\ bad > 0 => (~is_running'[i] /\ scheduler'[i] # "running")]_vars

\* start() was called on a manager without scheduler and a registration raised after
\* at least one job was registered: the scheduler exists, holds that job as pending,
\* and is not running
C24_Witness ==
    \E i \in Instances, bad \in 2..Len(SourceSeq) :
        /\ scheduler[i] = "initialized"
        /\ ~is_running[i]
        /\ listeners[i] = 2
        /\ pending[i] = Registered(bad)
        /\ jobs[i] = NoJobs

\* C25: in the application lifespan the Redis client is initialised before the
\* scheduler starts and closed only after stop() has returned, so every acquire and
\* every release of a job invocation, the release in the cleanup of an invocation in
\* flight at shutdown included, happens while the client is initialised: no
\* invocation waits in an acquire or a release with the client closed, and none
\* finds the client missing
C25_LockCallsWhileClientInitialised ==
    \A i \in Instances, j \in Jobs :
        /\ slot[i][j].pc \in {"acquire", "rel_load", "rel_evalsha", "rel_eval"}
              => redis_client[i]
        /\ slot[i][j].acq # "raised"
        /\ slot[i][j].rel # "raised"

\* C26: locks of different jobs are independent: for job ids j # k an acquire for j
\* succeeds whenever the key of j is absent, whoever holds the key of k, and no
\* acquire and no release for j removes or changes the key of k or its expiry
C26_LocksOfDifferentJobsIndependent ==
    [][\A i \in Instances, j \in Jobs, k \in Jobs :
         j # k =>
            /\ (AcquireStep(i, j) /\ storeUp /\ store[LockKey(j)] = NoToken) =>
                  /\ slot'[i][j].acq = "ok"
                  /\ store'[LockKey(j)] = slot'[i][j].token
            /\ (AcquireStep(i, j) \/ ReleaseLoad(i, j) \/ ReleaseEvalsha(i, j)
                  \/ ReleaseEval(i, j)) =>
                  /\ store'[LockKey(k)] = store[LockKey(k)]
                  /\ ttl'[LockKey(k)] = ttl[LockKey(k)]]_vars

\* the locks of "a" and "b" are held at once, under two keys and two tokens, each
\* by the invocation of its job
C26_Witness ==
    \E i \in Instances :
        /\ slot[i]["a"].pc = "handler" /\ slot[i]["a"].acq = "ok"
        /\ slot[i]["b"].pc = "handler" /\ slot[i]["b"].acq = "ok"
        /\ store[LockKey("a")] = slot[i]["a"].token
        /\ store[LockKey("b")] = slot[i]["b"].token
        /\ LockKey("a") # LockKey("b")
        /\ slot[i]["a"].token # slot[i]["b"].token

\* C27: a release that returns, returns true exactly when the key held the caller's
\* token at the script's atomic check, and then this call has deleted the key; a
\* release that returns false changes nothing in the store; a key that is absent
\* becomes present only by an acquire; and releasing the same handle once more
\* returns false and changes nothing in the store
C27_ReleaseTrueIffOwnerThenAbsent ==
    /\ [][\A i \in Instances, j \in Jobs :
            /\ ((ReleaseEvalsha(i, j) \/ ReleaseEval(i, j))
                  /\ slot'[i][j].rel \in {"true", "false"}) =>
                  /\ slot'[i][j].rel = "true" <=> store[LockKey(j)] = slot[i][j].token
                  /\ slot'[i][j].rel = "true" =>
                        (store'[LockKey(j)] = NoToken /\ ttl'[LockKey(j)] = 0)
                  /\ slot'[i][j].rel = "false" => (store' = store /\ ttl' = ttl)
            /\ (store[LockKey(j)] = NoToken /\ store'[LockKey(j)] # NoToken) =>
                  \E k \in Instances :
                      slot[k][j].pc = "acquire" /\ slot'[k][j].pc # "acquire"]_vars
    /\ [](\A i \in Instances, j \in Jobs :
            slot[i][j].rel \in {"true", "false"} =>
               /\ ReleaseScriptResult(LockKey(j), slot[i][j].token) = 0
               /\ ReleaseScriptStore(LockKey(j), slot[i][j].token) = store
               /\ ReleaseScriptTtl(LockKey(j), slot[i][j].token) = ttl)

\* one instance's release has returned true and left the key absent, the release
\* of another instance, whose lease had expired, has returned false
C27_Witness ==
    \E i, k \in Instances :
        /\ i # k
        /\ slot[i]["a"].rel = "true"
        /\ slot[k]["a"].rel = "false"
        /\ slot[i]["a"].token # slot[k]["a"].token
        /\ store[LockKey("a")] = NoToken

\* C28: on a manager that was never initialised add_interval_job, add_cron_job,
\* get_job_info and list_jobs fail with the "Scheduler not initialized" error and
\* remove_job, pause_job and resume_job return false, and each of these calls leaves
\* the manager without scheduler, not running and with no job registered; on an
\* initialised manager remove_job, pause_job and resume_job of an unknown job id
\* return false and leave every job's definition and paused state unchanged
C28_UninitialisedAndUnknownIdCalls ==
    /\ [](\A i \in Instances, j \in Jobs :
            /\ scheduler[i] = "None" =>
                  /\ AddResult(i, TRUE) = "RuntimeError"
                  /\ get_job_info(i, j) = "RuntimeError"
                  /\ ListJobsResult(i) = "RuntimeError"
                  /\ ~RemoveResult(i, j) /\ ~PauseResult(i, j)
                  /\ ~is_running[i] /\ jobs[i] = NoJobs /\ pending[i] = <<>>
            /\ (scheduler[i] # "None" /\ ~LookupJob(i, j).registered) =>
                  (~RemoveResult(i, j) /\ ~PauseResult(i, j)))
    /\ [][\A i \in Instances, j \in Jobs :
            /\ (scheduler[i] = "None"
                  /\ (\/ \E d \in BOOLEAN : AddIntervalJob(i, j, d)
                      \/ \E d \in BOOLEAN : AddCronJob(i, j, d, TRUE)
                      \/ remove_job(i, j) \/ pause_job(i, j) \/ resume_job(i, j))) =>
                  UNCHANGED vars
            /\ (scheduler[i] # "None" /\ ~LookupJob(i, j).registered
                  /\ (remove_job(i, j) \/ pause_job(i, j) \/ resume_job(i, j))) =>
                  UNCHANGED vars]_vars

\* an initialised, running manager on which "a" is registered and paused and "b"
\* is an unknown job id
C28_Witness ==
    \E i \in Instances :
        /\ scheduler[i] = "running"
        /\ LookupJob(i, "a").registered /\ LookupJob(i, "a").paused
        /\ ~LookupJob(i, "b").registered
        /\ ~PauseResult(i, "b") /\ ~RemoveResult(i, "b")
        /\ ENABLED pause_job(i, "b")

=============================================================================
